---------------------------- MODULE Spec2Model ----------------------------
(***************************************************************************)
(* A model of email2printer.py: one scheduled process that computes a      *)
(* time window in Europe/Madrid, searches a mailbox, filters the messages  *)
(* by date and body phrase, collects their .xlsx attachments, lays every   *)
(* attachment out as a table, assembles the tables into one PDF and mails  *)
(* it to the printer.                                                      *)
(*                                                                         *)
(* Time is counted in seconds.  The calendar starts on a Friday (day 0);   *)
(* the Sunday of that week (day 2) is the Sunday on which Europe/Madrid    *)
(* changes its UTC offset when the calendar is a "spring" or an "autumn"   *)
(* one.  An aware datetime of the Madrid zone is a record [wall, fold]:    *)
(* wall is the number of seconds of local wall-clock time since local      *)
(* midnight of day 0.  An instant is a number of seconds since UTC         *)
(* midnight of day 0.                                                      *)
(***************************************************************************)
EXTENDS Integers, Sequences, FiniteSets, TLC

VARIABLES
    dst,              \* which weeks of the year the calendar shows
    clock,            \* the instant the system clock shows
    lastRunDay,       \* the last local day on which a run read the clock
    windows,          \* the windows get_time_window has returned so far
    pc,               \* where main() stands
    weekdayAtWindow,  \* weekday get_time_window read (-1: not read in this run)
    start_time,       \* main: start_time
    end_time,         \* main: end_time
    email_ids,        \* main: email_ids, the ids still to be fetched
    fetched,          \* how many messages get_attachments has fetched in this run
    last_msg,         \* the message it fetched last
    expected,         \* what the fetched messages should have contributed
    attachments,      \* get_attachments: attachments / main: attachment_list
    idx,              \* convert_multiple_excels_to_pdf: idx
    elements,         \* convert_multiple_excels_to_pdf: elements
    assembler,        \* "never", "running", "completed", "failed"
    dispatches,       \* the calls of send_email in this run
    outcome           \* how the run ended ("" while it has not)

vars == << dst, clock, lastRunDay, windows, pc, weekdayAtWindow, start_time,
           end_time, email_ids, fetched, last_msg, expected, attachments, idx,
           elements, assembler, dispatches, outcome >>

-----------------------------------------------------------------------------
(* Bounds of the model *)

\* the calendar runs from day 0 (a Friday) to day MaxDay
MaxDay == 4

\* the most message ids one search returns
MaxCandidates == 2

-----------------------------------------------------------------------------
(* Time: datetime, timedelta and ZoneInfo("Europe/Madrid") *)

Hour == 60 * 60

DayLen == 24 * Hour

Min(a, b) == IF a <= b THEN a ELSE b

Max(a, b) == IF a >= b THEN a ELSE b

\* datetime.timedelta(days=n) and datetime.time(h, 0), in seconds
timedelta(days) == days * DayLen

time(h) == h * Hour

\* the instant of the offset change: 01:00 UTC on the Sunday, day 2
TransitionUTC == 2 * DayLen + Hour

\* the UTC offsets of Europe/Madrid before and after the change
OffsetBefore == IF dst = "autumn" THEN 2 * Hour ELSE Hour

OffsetAfter == IF dst = "spring" THEN 2 * Hour ELSE Hour

\* ZoneInfo.fromutc: the Madrid datetime of an instant.  The second pass
\* through the repeated hour of an autumn change has fold = 1.
fromutc(u) ==
    IF u < TransitionUTC
    THEN [wall |-> u + OffsetBefore, fold |-> 0]
    ELSE [wall |-> u + OffsetAfter,
          fold |-> IF u + OffsetAfter < TransitionUTC + OffsetBefore
                   THEN 1 ELSE 0]

\* ZoneInfo.utcoffset of a Madrid datetime: with fold = 0 a wall time in the
\* gap of a spring change or in the repeated hour of an autumn change takes
\* the offset before the change, with fold = 1 the offset after it.
utcoffset(dt) ==
    LET edge == IF dt.fold = 0
                THEN TransitionUTC + Max(OffsetBefore, OffsetAfter)
                ELSE TransitionUTC + Min(OffsetBefore, OffsetAfter)
    IN  IF dt.wall < edge THEN OffsetBefore ELSE OffsetAfter

\* the instant of a Madrid datetime
timestamp(dt) == dt.wall - utcoffset(dt)

\* datetime.datetime.now(madrid_tz)
now == fromutc(clock)

\* datetime.date(): the local day number
date(dt) == dt.wall \div DayLen

\* datetime.weekday(): 0 = Monday ... 6 = Sunday; day 0 is a Friday
weekday(dt) == (date(dt) + 4) % 7

\* datetime.datetime.combine(date, time(h, 0, tzinfo=madrid_tz))
combine(d, t) == [wall |-> d * DayLen + t, fold |-> 0]

\* dt - timedelta: wall-clock arithmetic inside one zone
minus(dt, delta) == [wall |-> dt.wall - delta, fold |-> dt.fold]

\* a <= b and a < b of two datetimes that share their tzinfo: Python
\* compares the wall-clock values and ignores tzinfo and fold
le(a, b) == a.wall <= b.wall

lt(a, b) == a.wall < b.wall

-----------------------------------------------------------------------------
(* Text: a str is a sequence of one-character strings *)

SEARCH_PHRASE ==
    << "D", "a", "i", "l", "y", " ", "L", "e", "a", "d", "s", " ",
       "R", "e", "p", "o", "r", "t" >>

ATTACHMENT_EXT == << ".", "x", "l", "s", "x" >>

Uppercase ==
    << "A", "B", "C", "D", "E", "F", "G", "H", "I", "J", "K", "L", "M",
       "N", "O", "P", "Q", "R", "S", "T", "U", "V", "W", "X", "Y", "Z" >>

Lowercase ==
    << "a", "b", "c", "d", "e", "f", "g", "h", "i", "j", "k", "l", "m",
       "n", "o", "p", "q", "r", "s", "t", "u", "v", "w", "x", "y", "z" >>

\* str.lower()
lower(s) ==
    [i \in 1..Len(s) |->
        IF \E k \in 1..26 : Uppercase[k] = s[i]
        THEN Lowercase[CHOOSE k \in 1..26 : Uppercase[k] = s[i]]
        ELSE s[i]]

\* str.endswith(suffix)
endswith(s, suffix) ==
    /\ Len(s) >= Len(suffix)
    /\ SubSeq(s, Len(s) - Len(suffix) + 1, Len(s)) = suffix

\* needle in haystack
contains(haystack, needle) ==
    \E i \in 0..(Len(haystack) - Len(needle)) :
        SubSeq(haystack, i + 1, i + Len(needle)) = needle

\* n copies of the character c
Rep(c, n) == [i \in 1..n |-> c]

-----------------------------------------------------------------------------
(* Messages: what mail.fetch and email.message_from_bytes hand over *)

\* message.walk(): a multipart message yields its container, then its parts;
\* any other message yields itself
Container ==
    [ctype |-> "multipart/mixed", decodes |-> FALSE, text |-> << >>,
     disposition |-> "none", has_filename |-> FALSE, filename |-> << >>,
     payload |-> [ok |-> FALSE, rows |-> << >>]]

walk(msg) == IF msg.multipart THEN << Container >> \o msg.parts ELSE msg.parts

\* part.get_payload(decode=True).decode(charset): the text, or an exception
\* that both callers catch and answer with ""
decode_or_empty(part) == IF part.decodes THEN part.text ELSE << >>

\* get_email_body of a multipart message: the first text/plain part decides
get_email_body_as_first_plain(msg) ==
    LET ps == walk(msg)
        plain == {i \in 1..Len(ps) : ps[i].ctype = "text/plain"}
    IN  IF plain = {} THEN << >>
        ELSE decode_or_empty(ps[CHOOSE i \in plain : \A j \in plain : i <= j])

get_email_body(msg) ==
    IF msg.multipart
    THEN get_email_body_as_first_plain(msg)
    ELSE decode_or_empty(msg.parts[1])

\* email.utils.parsedate_to_datetime: whether it raises
parsedate_raises(date_hdr) == date_hdr.kind = "garbage"

\* email_date.astimezone(madrid_tz): whether it raises OverflowError (a date
\* at the edge of the year range datetime can hold)
astimezone_raises(date_hdr) == date_hdr.kind = "far"

\* email_date.astimezone(madrid_tz) of a parsed Date header, which carries a
\* local time and its own UTC offset
astimezone(date_hdr) == fromutc(date_hdr.local - date_hdr.offset)

\* a slip: the window closed at its end
in_window_closed(dt, st, en) == le(st, dt) /\ le(dt, en)

\* start_time <= email_date_madrid < end_time
in_window(dt, st, en) == le(st, dt) /\ lt(dt, en)

\* a slip: the filename compared as it is written
is_excel_attachment_case_sensitive(part) ==
    /\ part.disposition = "attachment"
    /\ part.has_filename
    /\ part.filename # << >>
    /\ endswith(part.filename, ATTACHMENT_EXT)

\* the test of a part: an attachment whose filename ends in .xlsx
is_excel_attachment(part) ==
    /\ part.disposition = "attachment"
    /\ part.has_filename
    /\ part.filename # << >>
    /\ endswith(lower(part.filename), ATTACHMENT_EXT)

\* the payloads of the parts get_attachments keeps of one accepted message
excel_payloads(msg) ==
    LET ps == walk(msg)
        kept == SelectSeq(ps, is_excel_attachment)
    IN  [i \in 1..Len(kept) |-> kept[i].payload]

\* a slip: the exception of parsedate_to_datetime not caught
date_error_escapes == [res |-> "raise", found |-> << >>]

\* except Exception: print(...); continue
date_error_result == [res |-> "skip", found |-> << >>]

\* One pass of the loop of get_attachments over a fetched message: "skip"
\* (continue), "raise" (an exception leaves the loop) or "keep" with the
\* payloads appended
filter_message(msg, st, en) ==
    IF msg.status # "OK" THEN [res |-> "skip", found |-> << >>]
    ELSE IF msg.date.kind = "absent" THEN [res |-> "skip", found |-> << >>]
    ELSE IF parsedate_raises(msg.date) THEN date_error_result
    ELSE IF astimezone_raises(msg.date) THEN [res |-> "raise", found |-> << >>]
    ELSE IF ~in_window(astimezone(msg.date), st, en)
         THEN [res |-> "skip", found |-> << >>]
    ELSE IF ~contains(get_email_body(msg), SEARCH_PHRASE)
         THEN [res |-> "skip", found |-> << >>]
    ELSE [res |-> "keep", found |-> excel_payloads(msg)]

-----------------------------------------------------------------------------
(* Spreadsheets and the table of one attachment *)

\* A payload is the bytes of an attachment: a workbook openpyxl can load,
\* with the rows of its active sheet, or bytes it cannot load.  A cell value
\* is None, a str or an int.
NoneCell == [kind |-> "none", s |-> << >>, n |-> 0]

StrCell(text) == [kind |-> "str", s |-> text, n |-> 0]

IntCell(k) == [kind |-> "int", s |-> << >>, n |-> k]

Digits == << "0", "1", "2", "3", "4", "5", "6", "7", "8", "9" >>

RECURSIVE NatStr(_)
NatStr(k) ==
    IF k < 10 THEN << Digits[k + 1] >>
    ELSE Append(NatStr(k \div 10), Digits[(k % 10) + 1])

\* str(cell) if cell is not None else ""
cell_text(cell) ==
    CASE cell.kind = "none" -> << >>
      [] cell.kind = "str" -> cell.s
      [] cell.kind = "int" ->
            IF cell.n < 0 THEN << "-" >> \o NatStr(0 - cell.n)
            ELSE NatStr(cell.n)

\* raw_data: the rows of the sheet as text
raw_data_of(rows) ==
    [r \in 1..Len(rows) |-> [c \in 1..Len(rows[r]) |-> cell_text(rows[r][c])]]

\* Helvetica's advance widths, in thousandths of the font size
CharWidth(ch) ==
    CASE ch = "W" -> 944
      [] ch = "i" -> 222
      [] ch = " " -> 278
      [] ch = "-" -> 333
      [] OTHER -> 556

RECURSIVE SumWidths(_)
SumWidths(text) ==
    IF text = << >> THEN 0 ELSE CharWidth(Head(text)) + SumWidths(Tail(text))

\* stringWidth(text, 'Helvetica', 10), in hundredths of a point
stringWidth(text) == SumWidths(text)

\* lengths are in hundredths of a point
Points(p) == p * 100

\* landscape(letter) is 792 points wide; the margins of SimpleDocTemplate
page_width == 792

leftMargin == 30

rightMargin == 30

\* available_width = 792 - 60
available_width == Points(792 - 60)

\* num_cols: the length of the first row
num_cols_of(raw_data) == IF raw_data # << >> THEN Len(raw_data[1]) ELSE 0

\* zip(*raw_data) has as many columns as the shortest row
zip_len(raw_data) ==
    IF raw_data = << >> THEN 0
    ELSE CHOOSE k \in {Len(raw_data[r]) : r \in 1..Len(raw_data)} :
            \A r \in 1..Len(raw_data) : k <= Len(raw_data[r])

RECURSIVE MaxOf(_)
MaxOf(S) ==
    IF S = {} THEN 0
    ELSE LET x == CHOOSE y \in S : TRUE IN Max(x, MaxOf(S \ {x}))

\* calculated_width of column c: max(widths + [0]) + 10
calculated_width(raw_data, c) ==
    MaxOf({stringWidth(raw_data[r][c]) : r \in 1..Len(raw_data)}) + Points(10)

\* The widths are kept as fractions with the denominator width_denom, so
\* that available_width / num_cols is exact: a width w stands for
\* w / width_denom hundredths of a point.
width_denom(raw_data) == Max(num_cols_of(raw_data), 1)

\* max_col_width = available_width / num_cols if num_cols > 0 else 100
max_col_width(raw_data) ==
    IF num_cols_of(raw_data) > 0 THEN available_width ELSE Points(100)

\* a slip: every column capped by the whole available width
col_width_capped_by_page(raw_data, c) ==
    Min(calculated_width(raw_data, c) * width_denom(raw_data),
        available_width * width_denom(raw_data))

\* min(calculated_width, max_col_width)
col_width(raw_data, c) ==
    Min(calculated_width(raw_data, c) * width_denom(raw_data),
        max_col_width(raw_data))

col_widths_of(raw_data) ==
    [c \in 1..zip_len(raw_data) |-> col_width(raw_data, c)]

\* Table(data, colWidths=col_widths) raises ValueError for a table without
\* a row or without a column
table_raises(raw_data) == raw_data = << >> \/ num_cols_of(raw_data) = 0

PageBreak == [kind |-> "PageBreak", data |-> << >>, colWidths |-> << >>, denom |-> 1]

Table(raw_data) ==
    [kind |-> "Table", data |-> raw_data, colWidths |-> col_widths_of(raw_data),
     denom |-> width_denom(raw_data)]

\* a slip: a page break after every table
page_break_after_every(i, n) == TRUE

\* idx < len(excel_data_list) - 1
page_break_after(i, n) == i < n - 1

\* what one pass of the loop of convert_multiple_excels_to_pdf appends
appended(excel_data, i, n) ==
    << Table(raw_data_of(excel_data.rows)) >>
        \o (IF page_break_after(i, n) THEN << PageBreak >> ELSE << >>)

-----------------------------------------------------------------------------
(* get_time_window *)

\* a slip: Saturday taken for a working day
is_weekend_sunday_only(n) == weekday(n) > 5

\* now.weekday() > 4
is_weekend(n) == weekday(n) > 4

\* a slip: Monday reaches back to Saturday
days_back_two_on_monday(n) == IF weekday(n) = 0 THEN 2 ELSE 1

\* a slip: Monday treated as any other working day
days_back_always_one(n) == 1

\* timedelta(days=3) on a Monday, timedelta(days=1) from Tuesday to Friday
days_back(n) == IF weekday(n) = 0 THEN 3 ELSE 1

start_time_of(n) == combine(date(minus(n, timedelta(days_back(n)))), time(8))

\* a slip: the window ends at 08:00
end_time_at_eight(n) == combine(date(n), time(8))

end_time_of(n) == combine(date(n), time(9))

\* a datetime that was never assigned
Unset == [wall |-> 0, fold |-> 2]

\* get_time_window with the clock reading n: exit(0), or (start, end)
get_time_window(n) ==
    IF is_weekend(n)
    THEN [exits |-> TRUE, start_time |-> Unset, end_time |-> Unset]
    ELSE [exits |-> FALSE, start_time |-> start_time_of(n),
          end_time |-> end_time_of(n)]

-----------------------------------------------------------------------------
(* The mailbox: the messages a fetch may hand over during a run whose      *)
(* window is [st, en)                                                      *)

NoPayload == [ok |-> FALSE, rows |-> << >>]

\* a sheet of two rows and two columns
SmallSheet ==
    [ok |-> TRUE,
     rows |-> << << StrCell(<< "a" >>), IntCell(12) >>,
                 << NoneCell, StrCell(<< "W", "i" >>) >> >>]

\* one cell whose text alone is wider than the page
WideCellSheet == [ok |-> TRUE, rows |-> << << StrCell(Rep("W", 90)) >> >>]

\* three columns that together do not fit
WideRowSheet ==
    [ok |-> TRUE,
     rows |-> << << StrCell(Rep("W", 40)), IntCell(0 - 7), StrCell(Rep("a", 60)) >> >>]

\* a sheet without cells
EmptySheet == [ok |-> TRUE, rows |-> << >>]

\* bytes openpyxl.load_workbook cannot load
CorruptBytes == [ok |-> FALSE, rows |-> << >>]

Plain(text, decodes) ==
    [ctype |-> "text/plain", decodes |-> decodes, text |-> text,
     disposition |-> "none", has_filename |-> FALSE, filename |-> << >>,
     payload |-> NoPayload]

Html(text) ==
    [ctype |-> "text/html", decodes |-> TRUE, text |-> text,
     disposition |-> "none", has_filename |-> FALSE, filename |-> << >>,
     payload |-> NoPayload]

File(disposition, has_filename, filename, payload) ==
    [ctype |-> "application/octet-stream", decodes |-> FALSE, text |-> << >>,
     disposition |-> disposition, has_filename |-> has_filename,
     filename |-> filename, payload |-> payload]

DateHdr(u, offset) == [kind |-> "date", local |-> u + offset, offset |-> offset]

AbsentDate == [kind |-> "absent", local |-> 0, offset |-> 0]

GarbageDate == [kind |-> "garbage", local |-> 0, offset |-> 0]

FarDate == [kind |-> "far", local |-> 0, offset |-> 0]

Message(status, date_hdr, multipart, parts) ==
    [status |-> status, date |-> date_hdr, multipart |-> multipart,
     parts |-> parts]

\* a message with the phrase as its body and one spreadsheet attached
Report(date_hdr, payload) ==
    Message("OK", date_hdr, TRUE,
            << Plain(SEARCH_PHRASE, TRUE),
               File("attachment", TRUE, << "a", ".", "x", "l", "s", "x" >>, payload) >>)

LowercasePhrase == lower(SEARCH_PHRASE)

EmbeddedPhrase == << "x" >> \o SEARCH_PHRASE \o << "!" >>

Mailbox(st, en) ==
    LET S == timestamp(st)
        E == timestamp(en)
    IN  { Report(DateHdr(S - 1, 0), SmallSheet),
          Report(DateHdr(S, 0 - 5 * Hour), SmallSheet),
          Report(DateHdr(E - 1, 2 * Hour), WideCellSheet),
          Report(DateHdr(E, 0), SmallSheet),
          Report(DateHdr(E + 1, 0 - 5 * Hour), SmallSheet),
          Report(DateHdr(TransitionUTC + 30 * 60, 0), SmallSheet),
          Report(DateHdr(S + 60, Hour), EmptySheet),
          Report(DateHdr(S + 2 * 60, Hour), CorruptBytes),
          Report(AbsentDate, SmallSheet),
          Report(GarbageDate, SmallSheet),
          Report(FarDate, SmallSheet),
          Message("NO", AbsentDate, FALSE, << >>),
          \* the body cannot be decoded
          Message("OK", DateHdr(S, Hour), TRUE,
                  << Plain(SEARCH_PHRASE, FALSE),
                     File("attachment", TRUE, << "a", ".", "x", "l", "s", "x" >>, SmallSheet) >>),
          \* the phrase in another case
          Message("OK", DateHdr(S, Hour), TRUE,
                  << Plain(LowercasePhrase, TRUE),
                     File("attachment", TRUE, << "a", ".", "x", "l", "s", "x" >>, SmallSheet) >>),
          \* the phrase inside a longer text, and parts of every kind
          Message("OK", DateHdr(S + Hour, Hour), TRUE,
                  << Plain(EmbeddedPhrase, TRUE),
                     File("attachment", TRUE, << "B", ".", "X", "L", "S", "X" >>, WideCellSheet),
                     File("inline", TRUE, << "c", ".", "x", "l", "s", "x" >>, SmallSheet),
                     File("attachment", FALSE, << >>, SmallSheet),
                     File("attachment", TRUE, << "d", ".", "x", "l", "s" >>, SmallSheet),
                     File("attachment", TRUE, << "F", ".", "X", "l", "s", "x" >>, WideRowSheet) >>),
          \* the phrase only in an HTML part
          Message("OK", DateHdr(S, Hour), TRUE,
                  << Html(SEARCH_PHRASE),
                     File("attachment", TRUE, << "a", ".", "x", "l", "s", "x" >>, SmallSheet) >>),
          \* the phrase only in the second text/plain part
          Message("OK", DateHdr(S, Hour), TRUE,
                  << Plain(<< "h", "i" >>, TRUE), Plain(SEARCH_PHRASE, TRUE),
                     File("attachment", TRUE, << "a", ".", "x", "l", "s", "x" >>, SmallSheet) >>),
          \* a message that is not multipart
          Message("OK", DateHdr(S, Hour), FALSE, << Plain(SEARCH_PHRASE, TRUE) >>) }

-----------------------------------------------------------------------------
(* What the filter is meant to keep, stated on the instants of the         *)
(* messages and letter by letter; the variable expected accumulates it     *)

NoMessage == [status |-> "NO", date |-> AbsentDate, multipart |-> FALSE, parts |-> << >>]

\* the precise instant of a fetched message whose Date header parses
Timed(msg) == msg.status = "OK" /\ msg.date.kind = "date"

Instant(msg) == msg.date.local - msg.date.offset

\* the phrase stands in the body, letter for letter
BodyHasPhrase(msg) ==
    LET body == get_email_body(msg)
    IN  \E k \in 0..(Len(body) - Len(SEARCH_PHRASE)) :
           \A j \in 1..Len(SEARCH_PHRASE) : body[k + j] = SEARCH_PHRASE[j]

\* a message qualifies: its instant lies in the window and its body holds
\* the phrase
Qualifies(msg) ==
    /\ Timed(msg)
    /\ timestamp(start_time) <= Instant(msg)
    /\ Instant(msg) < timestamp(end_time)
    /\ BodyHasPhrase(msg)

\* a part is a spreadsheet attachment: marked as an attachment, with a
\* filename whose last five characters are ".xlsx" in either case
IsSpreadsheet(part) ==
    /\ part.disposition = "attachment"
    /\ part.has_filename
    /\ Len(part.filename) >= Len(ATTACHMENT_EXT)
    /\ \A j \in 1..Len(ATTACHMENT_EXT) :
          LET ch == part.filename[Len(part.filename) - Len(ATTACHMENT_EXT) + j]
          IN  \/ ch = ATTACHMENT_EXT[j]
              \/ \E k \in 1..26 : ch = Uppercase[k] /\ Lowercase[k] = ATTACHMENT_EXT[j]

RECURSIVE SpreadsheetsOf(_)
SpreadsheetsOf(parts) ==
    IF parts = << >> THEN << >>
    ELSE (IF IsSpreadsheet(Head(parts)) THEN << Head(parts).payload >> ELSE << >>)
            \o SpreadsheetsOf(Tail(parts))

\* what one fetched message should contribute
ExpectedOf(msg) ==
    IF Qualifies(msg) THEN SpreadsheetsOf(walk(msg)) ELSE << >>

-----------------------------------------------------------------------------
(* The run *)

Init ==
    /\ dst \in {"none", "spring", "autumn"}
    /\ clock = timestamp(combine(0, time(12)))
    /\ lastRunDay = -1
    /\ windows = {}
    /\ pc = "idle"
    /\ weekdayAtWindow = -1
    /\ start_time = Unset
    /\ end_time = Unset
    /\ email_ids = << >>
    /\ fetched = 0
    /\ last_msg = NoMessage
    /\ expected = << >>
    /\ attachments = << >>
    /\ idx = 0
    /\ elements = << >>
    /\ assembler = "never"
    /\ dispatches = 0
    /\ outcome = ""

\* what a run leaves alone of the clock and the calendar
ClockUnchanged == UNCHANGED << dst, clock >>

\* The run ends: the last statement of main, a return, exit(0) or an
\* exception leaving main
Finish(how) ==
    /\ pc' = "done"
    /\ outcome' = how

\* The clock moves on while no run is under way: to noon, to the last second
\* of the day, to noon of the next day.  A working day does not end before a
\* run has computed its window.
Tick ==
    /\ pc = "idle"
    /\ LET d == date(now)
           s == now.wall % DayLen
       IN  \/ /\ s < time(12)
              /\ clock' = timestamp(combine(d, time(12)))
           \/ /\ s >= time(12)
              /\ s < DayLen - 1
              /\ clock' = timestamp(combine(d, DayLen - 1))
           \/ /\ s = DayLen - 1
              /\ d < MaxDay
              /\ is_weekend(now) \/ lastRunDay = d
              /\ clock' = timestamp(combine(d + 1, time(12)))
    /\ UNCHANGED << dst, lastRunDay, windows, pc, weekdayAtWindow, start_time,
                    end_time, email_ids, fetched, last_msg, expected, attachments, idx, elements,
                    assembler, dispatches, outcome >>

\* Midnight passes between the clock reading of main and the one of
\* get_time_window.  As in Tick, the day that ends has had its window
\* computed by an earlier run: the runs are taken to cover every working day.
MidnightInRun ==
    /\ pc = "get_time_window"
    /\ now.wall % DayLen = DayLen - 1
    /\ date(now) < MaxDay
    /\ lastRunDay = date(now)
    /\ clock' = clock + 1
    /\ UNCHANGED << dst, lastRunDay, windows, pc, weekdayAtWindow, start_time,
                    end_time, email_ids, fetched, last_msg, expected, attachments, idx, elements,
                    assembler, dispatches, outcome >>

\* main, to its call of get_time_window
main_start ==
    /\ pc = "idle"
    /\ IF is_weekend(now)
       THEN Finish("weekend")
       ELSE pc' = "get_time_window" /\ outcome' = ""
    /\ ClockUnchanged
    /\ UNCHANGED << lastRunDay, windows, weekdayAtWindow, start_time, end_time,
                    email_ids, fetched, last_msg, expected, attachments, idx, elements, assembler,
                    dispatches >>

\* start_time, end_time = get_time_window()
call_get_time_window ==
    /\ pc = "get_time_window"
    /\ weekdayAtWindow' = weekday(now)
    /\ LET w == get_time_window(now)
       IN  IF w.exits
           THEN /\ Finish("exit")
                /\ UNCHANGED << start_time, end_time, windows, lastRunDay >>
           ELSE /\ start_time' = w.start_time
                /\ end_time' = w.end_time
                /\ windows' = windows \cup
                      {[day |-> date(now), start_time |-> w.start_time,
                        end_time |-> w.end_time]}
                /\ lastRunDay' = date(now)
                /\ pc' = "connect_imap"
                /\ UNCHANGED outcome
    /\ ClockUnchanged
    /\ UNCHANGED << email_ids, fetched, last_msg, expected, attachments, idx, elements, assembler,
                    dispatches >>

\* mail = connect_imap(): the connection or the login may fail
connect_imap ==
    /\ pc = "connect_imap"
    /\ \E ok \in BOOLEAN :
          IF ok THEN pc' = "search_emails" /\ UNCHANGED outcome
          ELSE Finish("error")
    /\ ClockUnchanged
    /\ UNCHANGED << lastRunDay, windows, weekdayAtWindow, start_time, end_time,
                    email_ids, fetched, last_msg, expected, attachments, idx, elements, assembler,
                    dispatches >>

\* email_ids = search_emails(mail, start_time), and main's test of the
\* result; mail.select or mail.search may raise
search_emails ==
    /\ pc = "search_emails"
    /\ \E status \in {"OK", "NO", "raise"}, n \in 0..MaxCandidates :
          LET ids == IF status # "OK" THEN << >> ELSE [i \in 1..n |-> i]
          IN  /\ status # "OK" => n = 0
              /\ email_ids' = ids
              /\ IF status = "raise" THEN Finish("error")
                 ELSE IF ids = << >> THEN Finish("no_emails")
                 ELSE pc' = "get_attachments" /\ UNCHANGED outcome
    /\ ClockUnchanged
    /\ UNCHANGED << lastRunDay, windows, weekdayAtWindow, start_time, end_time,
                    fetched, last_msg, expected, attachments, idx, elements, assembler, dispatches >>

\* one pass of the loop of get_attachments: mail.fetch hands over a message,
\* or raises
get_attachments_pass ==
    /\ pc = "get_attachments"
    /\ email_ids # << >>
    /\ \/ \E msg \in Mailbox(start_time, end_time) :
             LET r == filter_message(msg, start_time, end_time)
             IN  /\ fetched' = fetched + 1
                 /\ last_msg' = msg
                 /\ expected' = expected \o ExpectedOf(msg)
                 /\ email_ids' = Tail(email_ids)
                 /\ IF r.res = "raise"
                    THEN Finish("error") /\ UNCHANGED attachments
                    ELSE /\ attachments' = attachments \o r.found
                         /\ UNCHANGED << pc, outcome >>
       \/ /\ Finish("error")
          /\ UNCHANGED << fetched, last_msg, expected, email_ids, attachments >>
    /\ ClockUnchanged
    /\ UNCHANGED << lastRunDay, windows, weekdayAtWindow, start_time, end_time,
                    idx, elements, assembler, dispatches >>

\* a slip: the list never tested
never_empty(list) == FALSE

\* not attachment_list
is_empty(list) == list = << >>

\* return attachments, main's test of the list, and the entry of
\* convert_multiple_excels_to_pdf
get_attachments_return ==
    /\ pc = "get_attachments"
    /\ email_ids = << >>
    /\ IF is_empty(attachments)
       THEN Finish("no_attachments") /\ UNCHANGED assembler
       ELSE pc' = "convert" /\ assembler' = "running" /\ UNCHANGED outcome
    /\ ClockUnchanged
    /\ UNCHANGED << lastRunDay, windows, weekdayAtWindow, start_time, end_time,
                    email_ids, fetched, last_msg, expected, attachments, idx, elements, dispatches >>

\* one pass of the loop of convert_multiple_excels_to_pdf
convert_pass ==
    /\ pc = "convert"
    /\ idx < Len(attachments)
    /\ LET excel_data == attachments[idx + 1]
       IN  IF ~excel_data.ok \/ table_raises(raw_data_of(excel_data.rows))
           THEN /\ Finish("error")
                /\ assembler' = "failed"
                /\ UNCHANGED << idx, elements >>
           ELSE /\ elements' = elements \o appended(excel_data, idx, Len(attachments))
                /\ idx' = idx + 1
                /\ UNCHANGED << pc, outcome, assembler >>
    /\ ClockUnchanged
    /\ UNCHANGED << lastRunDay, windows, weekdayAtWindow, start_time, end_time,
                    email_ids, fetched, last_msg, expected, attachments, dispatches >>

\* doc.build(elements): the layout may fail
doc_build ==
    /\ pc = "convert"
    /\ idx = Len(attachments)
    /\ \E ok \in BOOLEAN :
          IF ok
          THEN pc' = "send_email" /\ assembler' = "completed" /\ UNCHANGED outcome
          ELSE Finish("error") /\ assembler' = "failed"
    /\ ClockUnchanged
    /\ UNCHANGED << lastRunDay, windows, weekdayAtWindow, start_time, end_time,
                    email_ids, fetched, last_msg, expected, attachments, idx, elements, dispatches >>

\* send_email(TEMP_PDF): the transport may fail, and the exception is raised
\* again
send_email ==
    /\ pc = "send_email"
    /\ dispatches' = dispatches + 1
    /\ \E ok \in BOOLEAN : Finish(IF ok THEN "sent" ELSE "error")
    /\ ClockUnchanged
    /\ UNCHANGED << lastRunDay, windows, weekdayAtWindow, start_time, end_time,
                    email_ids, fetched, last_msg, expected, attachments, idx, elements, assembler >>

\* the process ends, and its state with it
process_exit ==
    /\ pc = "done"
    /\ pc' = "idle"
    /\ weekdayAtWindow' = -1
    /\ start_time' = Unset
    /\ end_time' = Unset
    /\ email_ids' = << >>
    /\ fetched' = 0
    /\ last_msg' = NoMessage
    /\ expected' = << >>
    /\ attachments' = << >>
    /\ idx' = 0
    /\ elements' = << >>
    /\ assembler' = "never"
    /\ dispatches' = 0
    /\ outcome' = ""
    /\ ClockUnchanged
    /\ UNCHANGED << lastRunDay, windows >>

Next ==
    \/ Tick
    \/ MidnightInRun
    \/ main_start
    \/ call_get_time_window
    \/ connect_imap
    \/ search_emails
    \/ get_attachments_pass
    \/ get_attachments_return
    \/ convert_pass
    \/ doc_build
    \/ send_email
    \/ process_exit

Spec == Init /\ [][Next]_vars

-----------------------------------------------------------------------------
(* The table builder on its own: convert_multiple_excels_to_pdf entered    *)
(* with one sheet drawn from a family of sheets                            *)

\* the most rows and the most columns of a sheet of the family
MaxRows == 2

MaxCols == 3

\* the texts a column's widest cell is drawn from: none, a short text, a
\* number, a text of a third of the page, a text wider than the page
WidestCells ==
    << NoneCell, StrCell(<< "W", "i" >>), IntCell(120), StrCell(Rep("W", 30)),
       StrCell(Rep("W", 90)) >>

\* the sheet of r rows and c columns whose column j holds WidestCells[f[j]]
\* in one row and a one-letter text in the others
Sheet(r, c, f) ==
    [ok |-> TRUE,
     rows |-> [i \in 1..r |->
                 [j \in 1..c |->
                     IF i = ((j - 1) % r) + 1 THEN WidestCells[f[j]]
                     ELSE StrCell(<< "i" >>)]]]

Sheets ==
    UNION { { Sheet(r, c, f) : f \in [1..c -> 1..Len(WidestCells)] } :
            r \in 1..MaxRows, c \in 1..MaxCols }
        \cup {EmptySheet, CorruptBytes}

TableInit ==
    /\ dst = "none"
    /\ clock = timestamp(combine(0, time(12)))
    /\ lastRunDay = -1
    /\ windows = {}
    /\ pc = "convert"
    /\ weekdayAtWindow = -1
    /\ start_time = Unset
    /\ end_time = Unset
    /\ email_ids = << >>
    /\ fetched = 0
    /\ last_msg = NoMessage
    /\ expected = << >>
    /\ attachments \in { << sheet >> : sheet \in Sheets }
    /\ idx = 0
    /\ elements = << >>
    /\ assembler = "running"
    /\ dispatches = 0
    /\ outcome = ""

TableNext == convert_pass \/ doc_build

TableSpec == TableInit /\ [][TableNext]_vars

-----------------------------------------------------------------------------
(* Properties *)

\* the run has done nothing but read the clock
NothingDone ==
    /\ start_time = Unset
    /\ end_time = Unset
    /\ email_ids = << >>
    /\ fetched = 0
    /\ last_msg = NoMessage
    /\ expected = << >>
    /\ attachments = << >>
    /\ elements = << >>
    /\ assembler = "never"
    /\ dispatches = 0

\* C1: whenever the weekday of the clock reading is Saturday (5) or Sunday (6),
\* get_time_window exits and returns no window, and a run that read such a
\* day (in main or in get_time_window) ends without a fetch, an assembly or
\* a dispatch; every run that goes on past get_time_window read a working
\* day there.
C1_WeekendNotApplicable ==
    /\ weekday(now) \in {5, 6} =>
          /\ get_time_window(now).exits
          /\ get_time_window(now).start_time = Unset
          /\ get_time_window(now).end_time = Unset
    /\ weekdayAtWindow \in {5, 6} =>
          pc = "done" /\ outcome = "exit" /\ NothingDone
    /\ outcome \in {"weekend", "exit"} => pc = "done" /\ NothingDone
    /\ pc \in {"connect_imap", "search_emails", "get_attachments", "convert",
               "send_email"} => weekdayAtWindow \in 0..4
    /\ \A w \in windows : (w.day + 4) % 7 \notin {5, 6}

\* a run whose get_time_window read a Saturday has ended
C1_Witness == pc = "done" /\ outcome = "exit" /\ weekdayAtWindow = 5

\* the weekday of a local day number (day 0 is a Friday)
DayOfWeek(d) == (d + 4) % 7

\* end - start as Python computes it for two datetimes that share their
\* tzinfo: the difference of the wall-clock values, the offsets ignored
sub(a, b) == a.wall - b.wall

\* C2: the window of a Monday run starts at 08:00 local time of the Friday
\* three calendar days earlier and ends at 09:00 local time of the Monday;
\* end - start is 73 hours of the Madrid wall clock whether or not the UTC
\* offset changes in between (the elapsed time is then 72 or 74 hours).
C2_MondayWindow ==
    \A w \in windows :
        DayOfWeek(w.day) = 0 =>
            /\ w.start_time = [wall |-> (w.day - 3) * DayLen + 8 * Hour, fold |-> 0]
            /\ DayOfWeek(date(w.start_time)) = 4
            /\ w.end_time = [wall |-> w.day * DayLen + 9 * Hour, fold |-> 0]
            /\ sub(w.end_time, w.start_time) = 73 * Hour
            /\ timestamp(w.end_time) - timestamp(w.start_time) =
                  CASE dst = "none" -> 73 * Hour
                    [] dst = "spring" -> 72 * Hour
                    [] dst = "autumn" -> 74 * Hour

\* a Monday window with the autumn change of offset inside it
C2_Witness ==
    /\ dst = "autumn"
    /\ weekdayAtWindow = 0
    /\ \E w \in windows :
          /\ w.start_time = start_time
          /\ timestamp(w.start_time) < TransitionUTC
          /\ TransitionUTC < timestamp(w.end_time)

\* C3: the window of a run on a Tuesday, Wednesday, Thursday or Friday, at
\* any time of the day, starts at 08:00 local time of the day before and
\* ends at 09:00 local time of the day; start < end and end - start is 25
\* hours.
C3_TuesdayToFridayWindow ==
    \A w \in windows :
        DayOfWeek(w.day) \in 1..4 =>
            /\ w.start_time = [wall |-> (w.day - 1) * DayLen + 8 * Hour, fold |-> 0]
            /\ w.end_time = [wall |-> w.day * DayLen + 9 * Hour, fold |-> 0]
            /\ lt(w.start_time, w.end_time)
            /\ timestamp(w.start_time) < timestamp(w.end_time)
            /\ sub(w.end_time, w.start_time) = 25 * Hour

\* a Tuesday window computed in the first second of the day
C3_Witness ==
    /\ weekdayAtWindow = 1
    /\ now.wall % DayLen = 0
    /\ pc = "connect_imap"
    /\ sub(end_time, start_time) = 25 * Hour

WindowSet == start_time # Unset /\ end_time # Unset

\* one pass of the filter loop has fetched a message
Fetch == pc = "get_attachments" /\ fetched' = fetched + 1

\* C4: membership in the window is half-open.  A fetched message whose
\* instant is the instant of start is not excluded by the window test (its
\* spreadsheets are appended when its body holds the phrase), one whose
\* instant is the instant of end adds nothing, one before start or one
\* second past end adds nothing, and whatever adds an attachment lies in
\* [start, end).
C4_HalfOpenWindow ==
    [][Fetch =>
          LET m == last_msg'
              S == timestamp(start_time)
              E == timestamp(end_time)
          IN  Timed(m) =>
                 /\ (Instant(m) = S /\ BodyHasPhrase(m)) =>
                       /\ attachments' = attachments \o SpreadsheetsOf(walk(m))
                       /\ pc' = "get_attachments"
                 /\ Instant(m) = E => attachments' = attachments
                 /\ (Instant(m) < S \/ Instant(m) = E + 1) => attachments' = attachments
                 /\ attachments' # attachments => S <= Instant(m) /\ Instant(m) < E]_vars

\* after a message at start was kept, a message at end with the phrase in
\* its body was fetched and nothing of it kept
C4_Witness ==
    /\ WindowSet
    /\ fetched = 2
    /\ Timed(last_msg) /\ Instant(last_msg) = timestamp(end_time)
    /\ BodyHasPhrase(last_msg)
    /\ IsSpreadsheet(last_msg.parts[2])
    /\ Len(attachments) = 1

\* C5: what get_attachments has collected is the concatenation, in the
\* order of the candidates and then of their parts, of the spreadsheet
\* attachments of the fetched candidates that qualify; nothing is left
\* out, nothing is removed as a duplicate, nothing else is added.
C5_AllQualifyingAttachments == attachments = expected

\* the same qualifying message fetched twice, two spreadsheets each time
C5_Witness ==
    /\ pc = "convert"
    /\ fetched = 2
    /\ Len(attachments) = 4
    /\ attachments[1] # attachments[2]
    /\ attachments[1] = attachments[3]
    /\ attachments[2] = attachments[4]

RECURSIVE Sum(_)
Sum(ws) == IF ws = << >> THEN 0 ELSE Head(ws) + Sum(Tail(ws))

\* the usable width of the page, in hundredths of a point
UsableWidth == Points(page_width - leftMargin - rightMargin)

AllConverted ==
    \/ pc = "convert" /\ idx = Len(attachments)
    \/ assembler = "completed"

\* C7: once the assembler has gone through its n >= 1 attachments, the
\* elements are the n tables in the order of the attachments with a page
\* break between every two of them: n - 1 page breaks, none before the
\* first table, none after the last.
C7_PageBreaksBetweenTables ==
    AllConverted =>
        LET n == Len(attachments)
        IN  /\ n >= 1
            /\ Len(elements) = 2 * n - 1
            /\ \A k \in 1..n :
                  /\ elements[2 * k - 1].kind = "Table"
                  /\ elements[2 * k - 1].data = raw_data_of(attachments[k].rows)
            /\ \A k \in 1..(n - 1) : elements[2 * k].kind = "PageBreak"
            /\ Cardinality({i \in 1..Len(elements) : elements[i].kind = "PageBreak"})
                  = n - 1

\* three tables assembled
C7_Witness == assembler = "completed" /\ Len(attachments) = 3 /\ Len(elements) = 5

\* C8: send_email is called at most once in a run, and only after the
\* assembler has completed on a non-empty list of attachments that all
\* loaded; a run that found no message or no attachment ends without a
\* dispatch and without the assembler, and a run with an attachment that
\* does not load ends without a dispatch.
C8_DispatchOnlyAfterAssembly ==
    /\ dispatches <= 1
    /\ (dispatches = 1 \/ pc = "send_email") =>
          /\ assembler = "completed"
          /\ attachments # << >>
          /\ \A i \in 1..Len(attachments) : attachments[i].ok
          /\ idx = Len(attachments)
    /\ outcome \in {"no_emails", "no_attachments"} =>
          pc = "done" /\ dispatches = 0 /\ assembler = "never" /\ elements = << >>
    /\ outcome = "no_emails" => fetched = 0
    /\ outcome = "no_attachments" => attachments = << >>
    /\ (pc = "done" /\ \E i \in 1..Len(attachments) : ~attachments[i].ok) =>
          dispatches = 0 /\ outcome = "error"
    /\ outcome = "sent" => dispatches = 1

\* a run that sent its document
C8_Witness == pc = "done" /\ outcome = "sent" /\ dispatches = 1

\* a fetched candidate is malformed: no Date header, one that does not
\* parse, or a body that cannot be decoded
UndecodableBody(msg) ==
    LET ps == walk(msg)
        plain == {i \in 1..Len(ps) : ps[i].ctype = "text/plain"}
    IN  IF msg.multipart
        THEN plain # {} /\ ~ps[CHOOSE i \in plain : \A j \in plain : i <= j].decodes
        ELSE ~msg.parts[1].decodes

Malformed(msg) ==
    /\ msg.status = "OK"
    /\ \/ msg.date.kind \in {"absent", "garbage"}
       \/ msg.date.kind = "date" /\ UndecodableBody(msg)

\* C9: the pass of the filter loop over a malformed candidate leaves the
\* loop running: the attachments collected so far are kept as they are,
\* nothing of the candidate is added, the run is not ended, and the
\* candidates after it are still to be examined.
C9_MalformedSkipped ==
    [][(Fetch /\ Malformed(last_msg')) =>
          /\ attachments' = attachments
          /\ pc' = "get_attachments"
          /\ outcome' = ""
          /\ email_ids' = Tail(email_ids)]_vars

\* the second candidate had a Date header that does not parse: the two
\* spreadsheets of the first are kept and the loop goes on
C9_Witness ==
    /\ pc = "get_attachments"
    /\ fetched = 2
    /\ Malformed(last_msg)
    /\ last_msg.date.kind = "garbage"
    /\ Len(attachments) = 2

\* the instants the coverage of the windows is probed at: around 08:00 and
\* 09:00 of every day, in the evening, at midnight, and around the change
\* of offset
Probes ==
    { timestamp(combine(d, t)) :
        d \in (0 - 1)..MaxDay,
        t \in {0, time(8) - 1, time(8), time(9) - 1, time(9), time(20), DayLen - 1} }
    \cup {TransitionUTC - 1, TransitionUTC, TransitionUTC + 30 * 60, TransitionUTC + Hour}

\* an instant lies in a window, by the test get_attachments applies
Covers(w, p) == in_window(fromutc(p), w.start_time, w.end_time)

\* C10: with a run on every working day, at whatever time of the day, the
\* windows leave no gap: every instant from the start of the first window
\* to the end of the last lies in some window; an instant from Friday
\* 09:00 to Monday 08:00 lies in the window of that Monday and not in the
\* window of the Tuesday after it.  (The windows change only in
\* get_time_window, so the state right after it shows every set of them.)
C10_NoGap ==
    pc = "connect_imap" =>
    /\ \A p \in Probes :
          (\E a \in windows, b \in windows :
              timestamp(a.start_time) <= p /\ p < timestamp(b.end_time))
             => \E w \in windows : Covers(w, p)
    /\ \A w \in windows :
          DayOfWeek(w.day) = 0 =>
             \A p \in Probes :
                (timestamp(combine(w.day - 3, time(9))) <= p
                    /\ p < timestamp(combine(w.day, time(8))))
                   => /\ Covers(w, p)
                      /\ \A v \in windows : v.day = w.day + 1 => ~Covers(v, p)

\* the runs of the Friday, the Monday and the Tuesday have computed their
\* windows, the Tuesday one in the first second of the day
C10_Witness ==
    /\ pc = "connect_imap"
    /\ dst = "spring"
    /\ {w.day : w \in windows} = {0, 3, 4}
    /\ weekdayAtWindow = 1
    /\ now.wall % DayLen = 0

=============================================================================
